---- MODULE Spec2Model ----
(***************************************************************************)
(* Model of src/src/window.rs: the window render state (State), its        *)
(* construction from the process arguments (State::new), the resize        *)
(* handler, the frame render and the event-loop closure of run().          *)
(*                                                                         *)
(* The windowing library and the GPU library are the environment.  The     *)
(* environment delivers events in the order the windowing library          *)
(* documents for one loop iteration: NewEvents, the queued window events,  *)
(* MainEventsCleared, one RedrawRequested per window that needs a redraw,  *)
(* RedrawEventsCleared, and LoopDestroyed once the control flow is Exit.   *)
(* The GPU library's surface acquisition succeeds or fails with any of     *)
(* the four SurfaceError values, chosen by the environment.                *)
(***************************************************************************)
EXTENDS Integers, Sequences, FiniteSets, TLC

VARIABLES
    loop,           \* position of the event loop: "init", "idle", "events", "redraws", "destroyed"
    args,           \* std::env::args(): args[1] is the program name (Rust's args[0])
    state,          \* the State struct
    control_flow,   \* *control_flow of the closure
    queue,          \* window events of this iteration not yet delivered
    handled,        \* window events of this iteration already passed to the closure
    redraws,        \* windows with a RedrawRequested still to be delivered
    calls,          \* library calls made by the most recent closure invocation
    acquired,       \* result of get_current_texture in the most recent closure invocation
    observed,       \* last non-zero size this window was observed to have
    renders,        \* render attempts in this loop iteration
    submits,        \* queue submissions in this loop iteration
    presents,       \* presents in this loop iteration
    redraw_requests,\* request_redraw calls in this loop iteration
    oom             \* a render attempt has failed with OutOfMemory

vars == <<loop, args, state, control_flow, queue, handled, redraws,
          calls, acquired, observed, renders, submits, presents, redraw_requests, oom>>

(***************************************************************************)
(* Bounds.                                                                 *)
(***************************************************************************)
\* widths and heights range over 0..MaxDim
MaxDim == 2
\* at most MaxBatch window events are queued per loop iteration
MaxBatch == 2

Dims == 0..MaxDim
Size(w, h) == [width |-> w, height |-> h]
Sizes == {Size(w, h) : w \in Dims, h \in Dims}
PositiveSizes == {sz \in Sizes : sz.width > 0 /\ sz.height > 0}

ThisWindow == "window"
OtherWindow == "other-window"
Windows == {ThisWindow, OtherWindow}

Program == "window"
\* first command-line arguments tried: the four recognised names and others
ArgStrings == {"line-list", "triangle-list", "triangle-strip", "line-strip",
               "point-list", "LINE-LIST", "line-strip ", "strip", ""}
\* argument vectors: no argument, one argument, two arguments
Argvs == {<<Program>>} \cup {<<Program, a>> : a \in ArgStrings}
            \cup {<<Program, a, b>> : a \in ArgStrings, b \in {"line-strip", "line-list"}}
\* argument vectors of the event-loop specification
LoopArgvs == {<<Program>>, <<Program, "line-strip">>}

SurfaceErrors == {"Lost", "Outdated", "OutOfMemory", "Timeout"}
AcquireResults == {"Ok"} \cup SurfaceErrors

(***************************************************************************)
(* Events.                                                                 *)
(***************************************************************************)
WE(kind, st, key, w, h) ==
    [kind |-> kind, state |-> st, virtual_keycode |-> key, width |-> w, height |-> h]
NoWE == WE("None", "None", "None", 0, 0)
CloseRequested == WE("CloseRequested", "None", "None", 0, 0)
KeyboardInput(st, key) == WE("KeyboardInput", st, key, 0, 0)
Resized(sz) == WE("Resized", "None", "None", sz.width, sz.height)
Focused == WE("Focused", "None", "None", 0, 0)

Event(type, wid, we) == [type |-> type, window_id |-> wid, event |-> we]
WindowEvent(wid, we) == Event("WindowEvent", wid, we)
RedrawRequested(wid) == Event("RedrawRequested", wid, NoWE)
MainEventsCleared == Event("MainEventsCleared", "None", NoWE)
NewEvents == Event("NewEvents", "None", NoWE)
RedrawEventsCleared == Event("RedrawEventsCleared", "None", NoWE)
LoopDestroyed == Event("LoopDestroyed", "None", NoWE)

KeyInputs == {KeyboardInput("Pressed", "Escape"), KeyboardInput("Released", "Escape"),
              KeyboardInput("Released", "Space"), KeyboardInput("Released", "None")}
\* window events the environment delivers
WindowEvents ==
    {WindowEvent(ThisWindow, we) :
        we \in {CloseRequested, Focused} \cup KeyInputs \cup {Resized(sz) : sz \in Sizes}}
    \cup {WindowEvent(OtherWindow, we) :
        we \in {CloseRequested, KeyboardInput("Released", "Escape"),
                Resized(Size(MaxDim, MaxDim))}}

RECURSIVE SeqsUpTo(_, _)
SeqsUpTo(S, n) ==
    IF n = 0 THEN {<<>>}
    ELSE LET shorter == SeqsUpTo(S, n - 1)
         IN shorter \cup {Append(q, e) : q \in {x \in shorter : Len(x) = n - 1}, e \in S}

Batches == SeqsUpTo(WindowEvents, MaxBatch)

(***************************************************************************)
(* Library calls recorded per closure invocation.                          *)
(***************************************************************************)
Call(op, w, h) == [op |-> op, width |-> w, height |-> h]
Op(op) == Call(op, 0, 0)
Configure(config) == Call("configure", config.width, config.height)

Count(op, cs) == Cardinality({i \in 1..Len(cs) : cs[i].op = op})

(***************************************************************************)
(* State::new: the primitive selection from the process arguments.         *)
(***************************************************************************)
\* `primitive_type`: "triangle-list" unless a first argument is given
primitive_type(argv) ==
    IF Len(argv) > 1 THEN argv[2] ELSE "triangle-list"

Primitive(topology, index_format) ==
    [topology |-> topology, strip_index_format |-> index_format]

primitive_no_strip_format(ptype) ==
    IF ptype = "line-list" THEN Primitive("LineList", "None")
    ELSE IF ptype = "triangle-list" THEN Primitive("TriangleList", "None")
    ELSE IF ptype = "triangle-strip" THEN Primitive("TriangleStrip", "Uint32")
    ELSE IF ptype = "line-strip" THEN Primitive("LineStrip", "None")
    ELSE Primitive("PointList", "None")

primitive_swapped(ptype) ==
    IF ptype = "line-list" THEN Primitive("LineList", "None")
    ELSE IF ptype = "triangle-list" THEN Primitive("TriangleList", "None")
    ELSE IF ptype = "triangle-strip" THEN Primitive("LineStrip", "Uint32")
    ELSE IF ptype = "line-strip" THEN Primitive("TriangleStrip", "Uint32")
    ELSE Primitive("PointList", "None")

\* the if / else-if chain choosing `topology` and `index_format`
primitive(ptype) ==
    IF ptype = "line-list" THEN Primitive("LineList", "None")
    ELSE IF ptype = "triangle-list" THEN Primitive("TriangleList", "None")
    ELSE IF ptype = "triangle-strip" THEN Primitive("TriangleStrip", "Uint32")
    ELSE IF ptype = "line-strip" THEN Primitive("LineStrip", "Uint32")
    ELSE Primitive("PointList", "None")

\* the SurfaceConfiguration built from the window's inner size
SurfaceConfiguration(sz) ==
    [usage |-> "RENDER_ATTACHMENT", format |-> "supported_formats[0]",
     width |-> sz.width, height |-> sz.height,
     present_mode |-> "Fifo", alpha_mode |-> "Auto"]

\* Color in thousandths
Background == [r |-> 50, g |-> 62, b |-> 80, a |-> 1000]

\* the surface as last configured
Configured(config) == [width |-> config.width, height |-> config.height]

\* the State value State::new returns
new(sz, argv) ==
    LET config == SurfaceConfiguration(sz)
        ptype == primitive_type(argv)
        inputs == primitive(ptype)
    IN [surface |-> Configured(config),
        size |-> sz,
        background |-> Background,
        config |-> config,
        window |-> [id |-> ThisWindow, title |-> "Primitive: " \o ptype],
        render_pipeline |->
            [topology |-> inputs.topology,
             strip_index_format |-> inputs.strip_index_format,
             vertex_buffers |-> 0, depth_stencil |-> "None", multisample |-> 1]]

\* the State before construction
NoState ==
    [surface |-> [width |-> 0, height |-> 0],
     size |-> Size(0, 0),
     background |-> [r |-> 0, g |-> 0, b |-> 0, a |-> 0],
     config |-> [usage |-> "None", format |-> "None", width |-> 0, height |-> 0,
                 present_mode |-> "None", alpha_mode |-> "None"],
     window |-> [id |-> ThisWindow, title |-> "My Window"],
     render_pipeline |->
         [topology |-> "None", strip_index_format |-> "None",
          vertex_buffers |-> 0, depth_stencil |-> "None", multisample |-> 0]]

(***************************************************************************)
(* State::resize, State::render, State::update, State::input.              *)
(* These operate on s = [self |-> State, calls |-> library calls so far].  *)
(***************************************************************************)
resize_either_dimension(s, new_size) ==
    IF new_size.width > 0 \/ new_size.height > 0
    THEN LET config == [s.self.config EXCEPT !.width = new_size.width,
                                             !.height = new_size.height]
         IN [self |-> [s.self EXCEPT !.size = new_size, !.config = config,
                                     !.surface = Configured(config)],
             calls |-> Append(s.calls, Configure(config))]
    ELSE s

resize_swapped(s, new_size) ==
    IF new_size.width > 0 /\ new_size.height > 0
    THEN LET config == [s.self.config EXCEPT !.width = new_size.height,
                                             !.height = new_size.width]
         IN [self |-> [s.self EXCEPT !.size = new_size, !.config = config,
                                     !.surface = Configured(config)],
             calls |-> Append(s.calls, Configure(config))]
    ELSE s

resize_size_only(s, new_size) ==
    IF new_size.width > 0 /\ new_size.height > 0
    THEN [self |-> [s.self EXCEPT !.size = new_size],
          calls |-> Append(s.calls, Configure(s.self.config))]
    ELSE s

resize(s, new_size) ==
    IF new_size.width > 0 /\ new_size.height > 0
    THEN LET config == [s.self.config EXCEPT !.width = new_size.width,
                                             !.height = new_size.height]
         IN [self |-> [s.self EXCEPT !.size = new_size, !.config = config,
                                     !.surface = Configured(config)],
             calls |-> Append(s.calls, Configure(config))]
    ELSE s

\* the calls of a frame once the surface texture is acquired
FrameCalls ==
    <<Op("create_view"), Op("create_command_encoder"), Op("begin_render_pass"),
      Op("set_pipeline"), Op("draw"), Op("submit"), Op("present")>>

\* render: `acquire` is what get_current_texture returns
render(s, acquire) ==
    LET tried == Append(s.calls, Op("get_current_texture"))
    IN IF acquire # "Ok"
       THEN [self |-> s.self, calls |-> tried, result |-> acquire]
       ELSE [self |-> s.self, calls |-> tried \o FrameCalls, result |-> "Ok"]

update(self) == self

input(self, we) == FALSE

window(self) == self.window

(***************************************************************************)
(* The closure passed to event_loop.run.                                   *)
(***************************************************************************)
closes_on_any_escape(we) ==
    \/ we.kind = "CloseRequested"
    \/ /\ we.kind = "KeyboardInput"
       /\ we.virtual_keycode = "Escape"

\* the pattern CloseRequested | KeyboardInput { Released, Some(Escape), .. }
closes(we) ==
    \/ we.kind = "CloseRequested"
    \/ /\ we.kind = "KeyboardInput"
       /\ we.state = "Released"
       /\ we.virtual_keycode = "Escape"

\* the guard of the WindowEvent arm
window_event_guard(self, event) ==
    /\ event.type = "WindowEvent"
    /\ event.window_id = window(self).id
    /\ ~input(self, event.event)

redraw_guard_any_window(self, event) ==
    event.type = "RedrawRequested"

\* the guard of the RedrawRequested arm
redraw_guard(self, event) ==
    /\ event.type = "RedrawRequested"
    /\ event.window_id = window(self).id

Outcome(s, cf, result) ==
    [self |-> s.self, calls |-> s.calls, control_flow |-> cf, acquired |-> result]

\* the inner match of the WindowEvent arm
window_event_arm(self, cf, we) ==
    LET s == [self |-> self, calls |-> <<>>]
    IN IF closes(we) THEN Outcome(s, "Exit", "None")
       ELSE IF we.kind = "Resized"
            THEN Outcome(resize(s, Size(we.width, we.height)), cf, "None")
            ELSE Outcome(s, cf, "None")

render_result_lost_exits(r, cf) ==
    IF r.result = "Ok" THEN Outcome(r, cf, r.result)
    ELSE IF r.result \in {"Lost", "Outdated"}
         THEN Outcome(r, "Exit", r.result)
         ELSE IF r.result = "OutOfMemory" THEN Outcome(r, "Exit", r.result)
              ELSE Outcome(r, cf, r.result)

render_result_oom_continues(r, cf) ==
    IF r.result = "Ok" THEN Outcome(r, cf, r.result)
    ELSE IF r.result \in {"Lost", "Outdated"}
         THEN Outcome(resize(r, r.self.size), cf, r.result)
         ELSE Outcome(r, cf, r.result)

render_result_timeout_reconfigures(r, cf) ==
    IF r.result = "Ok" THEN Outcome(r, cf, r.result)
    ELSE IF r.result \in {"Lost", "Outdated", "Timeout"}
         THEN Outcome(resize(r, r.self.size), cf, r.result)
         ELSE Outcome(r, "Exit", r.result)

\* the match on state.render(): r is render's outcome
render_result(r, cf) ==
    IF r.result = "Ok" THEN Outcome(r, cf, r.result)
    ELSE IF r.result \in {"Lost", "Outdated"}
         THEN Outcome(resize(r, r.self.size), cf, r.result)
         ELSE IF r.result = "OutOfMemory" THEN Outcome(r, "Exit", r.result)
              ELSE Outcome(r, cf, r.result)

\* the RedrawRequested arm
redraw_arm(self, cf, acquire) ==
    LET updated == update(self)
    IN render_result(render([self |-> updated, calls |-> <<>>], acquire), cf)

\* the MainEventsCleared arm
main_events_cleared_arm(self, cf) ==
    Outcome([self |-> self, calls |-> <<Op("request_redraw")>>], cf, "None")

\* one invocation of the closure on `event`
callback(self, cf, event, acquire) ==
    IF window_event_guard(self, event) THEN window_event_arm(self, cf, event.event)
    ELSE IF redraw_guard(self, event) THEN redraw_arm(self, cf, acquire)
    ELSE IF event.type = "MainEventsCleared" THEN main_events_cleared_arm(self, cf)
    ELSE Outcome([self |-> self, calls |-> <<>>], cf, "None")

(***************************************************************************)
(* The program: construction, then the event loop.                         *)
(***************************************************************************)
InitWith(argvs) ==
    /\ loop = "init"
    /\ args \in argvs
    /\ state = NoState
    /\ control_flow = "Poll"
    /\ queue = <<>>
    /\ handled = <<>>
    /\ redraws = {}
    /\ calls = <<>>
    /\ acquired = "None"
    /\ observed = Size(0, 0)
    /\ renders = 0
    /\ submits = 0
    /\ presents = 0
    /\ redraw_requests = 0
    /\ oom = FALSE

Init == InitWith(LoopArgvs)

\* State::new(window).await in run(); inner_size is window.inner_size(), which is
\* non-zero for the window run() has just created (surface.configure takes it as is)
New ==
    /\ loop = "init"
    /\ \E inner_size \in PositiveSizes :
          /\ state' = new(inner_size, args)
          /\ observed' = inner_size
    /\ calls' = <<Configure(state'.config)>>
    /\ loop' = "idle"
    /\ UNCHANGED <<args, control_flow, queue, handled, redraws, acquired,
                   renders, submits, presents, redraw_requests, oom>>

\* the size this window is observed to have once `event` is delivered
Observe(event) ==
    IF /\ event.type = "WindowEvent"
       /\ event.window_id = ThisWindow
       /\ event.event.kind = "Resized"
       /\ event.event.width > 0
       /\ event.event.height > 0
    THEN Size(event.event.width, event.event.height)
    ELSE observed

\* the closure runs on `event`; n0 are the iteration's counts before it
Run(event, acquire, n0) ==
    LET out == callback(state, control_flow, event, acquire)
    IN /\ state' = out.self
       /\ control_flow' = out.control_flow
       /\ calls' = out.calls
       /\ acquired' = out.acquired
       /\ observed' = Observe(event)
       /\ renders' = n0.renders + Count("get_current_texture", out.calls)
       /\ submits' = n0.submits + Count("submit", out.calls)
       /\ presents' = n0.presents + Count("present", out.calls)
       /\ redraw_requests' = n0.redraw_requests + Count("request_redraw", out.calls)
       /\ oom' = (oom \/ out.acquired = "OutOfMemory")

Counts == [renders |-> renders, submits |-> submits, presents |-> presents,
           redraw_requests |-> redraw_requests]
Zero == [renders |-> 0, submits |-> 0, presents |-> 0, redraw_requests |-> 0]

\* a loop iteration starts: the queued window events are fixed, NewEvents is delivered
DeliverNewEvents ==
    /\ loop = "idle"
    /\ \E batch \in Batches : queue' = batch
    /\ handled' = <<>>
    /\ Run(NewEvents, "Ok", Zero)
    /\ loop' = "events"
    /\ UNCHANGED <<args, redraws>>

\* the next queued window event is delivered
DeliverWindowEvent ==
    /\ loop = "events"
    /\ queue # <<>>
    /\ Run(Head(queue), "Ok", Counts)
    /\ queue' = Tail(queue)
    /\ handled' = Append(handled, Head(queue))
    /\ UNCHANGED <<loop, args, redraws>>

\* the queue is drained: MainEventsCleared is delivered; the windowing system may
\* itself ask for redraws of any window
DeliverMainEventsCleared ==
    /\ loop = "events"
    /\ queue = <<>>
    /\ Run(MainEventsCleared, "Ok", Counts)
    /\ \E os \in SUBSET Windows :
          redraws' = os \cup (IF redraw_requests' > redraw_requests
                              THEN {ThisWindow} ELSE {})
    /\ handled' = <<>>
    /\ loop' = "redraws"
    /\ UNCHANGED <<args, queue>>

\* one RedrawRequested per window needing a redraw; the surface acquisition of the
\* render attempt gives any result
DeliverRedrawRequested ==
    /\ loop = "redraws"
    /\ \E wid \in redraws, acquire \in AcquireResults :
          /\ Run(RedrawRequested(wid), acquire, Counts)
          /\ redraws' = redraws \ {wid}
    /\ UNCHANGED <<loop, args, queue, handled>>

\* the iteration ends: RedrawEventsCleared is delivered and the control flow is read
DeliverRedrawEventsCleared ==
    /\ loop = "redraws"
    /\ redraws = {}
    /\ Run(RedrawEventsCleared, "Ok", Counts)
    /\ loop' = IF control_flow' = "Exit" THEN "exiting" ELSE "idle"
    /\ UNCHANGED <<args, queue, handled, redraws>>

\* the control flow is Exit: the loop stops (at the end of the iteration, or at once)
\* and LoopDestroyed is the last event delivered
DeliverLoopDestroyed ==
    /\ loop \in {"events", "redraws", "exiting"}
    /\ control_flow = "Exit"
    /\ Run(LoopDestroyed, "Ok", Counts)
    /\ loop' = "destroyed"
    /\ UNCHANGED <<args, queue, handled, redraws>>

Next ==
    \/ New
    \/ DeliverNewEvents
    \/ DeliverWindowEvent
    \/ DeliverMainEventsCleared
    \/ DeliverRedrawRequested
    \/ DeliverRedrawEventsCleared
    \/ DeliverLoopDestroyed

Spec == Init /\ [][Next]_vars

\* construction alone, over every argument vector
InitNew == InitWith(Argvs)
NextNew == New
SpecNew == InitNew /\ [][NextNew]_vars

TypeOK ==
    /\ loop \in {"init", "idle", "events", "redraws", "exiting", "destroyed"}
    /\ control_flow \in {"Poll", "Exit"}
    /\ state.size \in Sizes
    /\ queue \in Batches
    /\ redraws \subseteq Windows
    /\ acquired \in AcquireResults \cup {"None"}

(***************************************************************************)
(* Steps of the loop, told apart by what they change.                      *)
(***************************************************************************)
Last(q) == q[Len(q)]
Constructed == loop # "init"

\* the closure handles the head of the queue
WindowEventStep ==
    /\ loop = "events"
    /\ queue # <<>>
    /\ handled' = Append(handled, Head(queue))

\* the closure handles MainEventsCleared
MainEventsClearedStep == loop = "events" /\ loop' = "redraws"

\* the closure handles RedrawRequested for this window
RedrawStep ==
    /\ loop = "redraws"
    /\ ThisWindow \in redraws
    /\ redraws' = redraws \ {ThisWindow}

ThisResized(sz) == WindowEvent(ThisWindow, Resized(sz))
ZeroSizes == Sizes \ PositiveSizes

(***************************************************************************)
(* C1.  After resize(w, h) with w > 0 and h > 0, whatever the state        *)
(* before, the stored size is (w, h), the configuration's width and        *)
(* height are (w, h), and the surface has been configured, once, with that *)
(* configuration.                                                          *)
(***************************************************************************)
C1_ResizeSetsSizeAndConfig ==
    \A sz \in PositiveSizes :
        (loop = "events" /\ handled # <<>> /\ Last(handled) = ThisResized(sz))
        => /\ state.size = sz
           /\ state.config.width = sz.width
           /\ state.config.height = sz.height
           /\ calls = <<Call("configure", sz.width, sz.height)>>
           /\ state.surface = [width |-> sz.width, height |-> sz.height]

C1_Witness ==
    /\ loop = "events"
    /\ Len(handled) = 2
    /\ handled[1] = ThisResized(Size(1, 2))
    /\ handled[2] = ThisResized(Size(2, 1))
    /\ state.size = Size(2, 1)
    /\ calls = <<Call("configure", 2, 1)>>

(***************************************************************************)
(* C2.  resize with a zero width or a zero height changes nothing: every   *)
(* field of the state is as before and the surface is not configured.      *)
(***************************************************************************)
C2_ZeroResizeIsNoOp ==
    [][\A sz \in ZeroSizes :
          (WindowEventStep /\ Head(queue) = ThisResized(sz))
          => /\ state' = state
             /\ calls' = <<>>
             /\ control_flow' = control_flow]_vars

C2_Witness ==
    /\ loop = "events"
    /\ Len(handled) = 2
    /\ handled[1] = ThisResized(Size(2, 1))
    /\ handled[2] = ThisResized(Size(0, 2))
    /\ state.size = Size(2, 1)
    /\ state.config.width = 2
    /\ calls = <<>>

(***************************************************************************)
(* C3.  The topology chosen from the first argument.  As claimed: the four *)
(* names select their topology and any other string, or no argument,       *)
(* selects PointList.                                                      *)
(***************************************************************************)
NamedTopology(name) ==
    CASE name = "line-list" -> "LineList"
      [] name = "triangle-list" -> "TriangleList"
      [] name = "triangle-strip" -> "TriangleStrip"
      [] name = "line-strip" -> "LineStrip"
      [] OTHER -> "PointList"

C4_StripIndexFormat ==
    Constructed =>
        /\ state.render_pipeline.strip_index_format =
              IF Len(args) > 1 /\ args[2] \in {"triangle-strip", "line-strip"}
              THEN "Uint32" ELSE "None"
        /\ (state.render_pipeline.strip_index_format # "None")
              <=> (state.render_pipeline.topology \in {"TriangleStrip", "LineStrip"})

C4_Witness ==
    /\ Constructed
    /\ Len(args) > 1
    /\ args[2] = "line-strip"
    /\ state.render_pipeline.topology = "LineStrip"
    /\ state.render_pipeline.strip_index_format = "Uint32"

(***************************************************************************)
(* C5.  In every state of the event loop the configuration's width and     *)
(* height, and the surface as configured, equal the stored size, and the   *)
(* stored size is the last non-zero size observed: the initial size, or    *)
(* that of the latest Resized event with both dimensions non-zero.         *)
(***************************************************************************)
C5_ConfigMatchesLastNonZeroSize ==
    Constructed =>
        /\ state.config.width = state.size.width
        /\ state.config.height = state.size.height
        /\ state.surface = [width |-> state.size.width, height |-> state.size.height]
        /\ state.size = observed

C5_Witness ==
    /\ loop = "events"
    /\ Len(handled) = 2
    /\ handled[1] = ThisResized(Size(1, 2))
    /\ handled[2] = ThisResized(Size(0, 0))
    /\ observed = Size(1, 2)
    /\ state.size = Size(1, 2)
    /\ state.config.width = 1
    /\ state.config.height = 2

(***************************************************************************)
(* C6.  A render attempt failing with Lost or Outdated: the surface is     *)
(* configured again with the stored size, nothing is drawn, submitted or   *)
(* presented, and the control flow is left as it was.                      *)
(***************************************************************************)
C6_LostReconfigures ==
    [][(RedrawStep /\ acquired' \in {"Lost", "Outdated"})
          => /\ calls' = <<Op("get_current_texture"),
                           Call("configure", state.size.width, state.size.height)>>
             /\ state' = state
             /\ control_flow' = control_flow
             /\ submits' = submits
             /\ presents' = presents
             /\ loop' = "redraws"]_vars

C6_Witness ==
    /\ loop = "redraws"
    /\ acquired = "Lost"
    /\ control_flow = "Poll"
    /\ state.size = Size(2, 1)
    /\ calls = <<Op("get_current_texture"), Call("configure", 2, 1)>>
    /\ submits = 0

(***************************************************************************)
(* C7.  A render attempt failing with OutOfMemory sets the control flow to *)
(* Exit, and from then on there is no render attempt, no submission and no *)
(* present, and no new loop iteration.                                     *)
(***************************************************************************)
C7_OutOfMemoryTerminates ==
    /\ [](acquired = "OutOfMemory" => control_flow = "Exit")
    /\ [][oom => /\ control_flow' = "Exit"
                 /\ renders' <= renders
                 /\ submits' <= submits
                 /\ presents' <= presents
                 /\ loop' # "idle"]_vars

C7_Witness ==
    /\ oom
    /\ loop = "destroyed"
    /\ control_flow = "Exit"
    /\ renders = 1
    /\ submits = 0

(***************************************************************************)
(* C8.  A window event sets the control flow to Exit exactly when it is    *)
(* addressed to this window and is CloseRequested or Escape Released; any  *)
(* other window event leaves the control flow as it was.                   *)
(***************************************************************************)
Terminating(event) ==
    /\ event.window_id = ThisWindow
    /\ \/ event.event = CloseRequested
       \/ event.event = KeyboardInput("Released", "Escape")

C8_OnlyCloseAndEscapeTerminate ==
    [][WindowEventStep
          => /\ Terminating(Head(queue)) => control_flow' = "Exit"
             /\ ~Terminating(Head(queue)) => control_flow' = control_flow]_vars

C8_Witness ==
    /\ loop = "events"
    /\ Len(handled) = 2
    /\ handled[1] = WindowEvent(OtherWindow, CloseRequested)
    /\ handled[2] = WindowEvent(ThisWindow, KeyboardInput("Released", "Escape"))
    /\ control_flow = "Exit"
    /\ ~oom

(***************************************************************************)
(* C9.  A render attempt failing with Timeout: nothing is submitted or     *)
(* presented, the surface is not configured, the state (size,              *)
(* configuration, background) and the control flow are as before.          *)
(***************************************************************************)
C9_TimeoutSkipsFrame ==
    [][(RedrawStep /\ acquired' = "Timeout")
          => /\ calls' = <<Op("get_current_texture")>>
             /\ state' = state
             /\ control_flow' = control_flow
             /\ submits' = submits
             /\ presents' = presents
             /\ loop' = "redraws"]_vars

C9_Witness ==
    /\ loop = "redraws"
    /\ acquired = "Timeout"
    /\ control_flow = "Poll"
    /\ calls = <<Op("get_current_texture")>>
    /\ renders = 1

(***************************************************************************)
(* C10.  Window events are handled in the order queued; request_redraw is  *)
(* called once on each MainEventsCleared and on no other event; each       *)
(* RedrawRequested for this window makes one render attempt; a loop        *)
(* iteration has at most one render attempt, submission and present.       *)
(***************************************************************************)
C10_OneRenderPerIteration ==
    /\ [](renders <= 1 /\ submits <= 1 /\ presents <= 1 /\ redraw_requests <= 1)
    /\ [][/\ WindowEventStep => handled' \o queue' = handled \o queue
          /\ MainEventsClearedStep => redraw_requests' = redraw_requests + 1
          /\ (redraw_requests' > redraw_requests) => MainEventsClearedStep
          /\ RedrawStep => renders' = renders + 1
          /\ (renders' > renders) => RedrawStep]_vars

C10_Witness ==
    /\ loop = "redraws"
    /\ redraws = {}
    /\ redraw_requests = 1
    /\ renders = 1
    /\ submits = 1
    /\ presents = 1
    /\ acquired = "None"

====
